---------------------------- MODULE Spec2Model ----------------------------
(***************************************************************************)
(* Patient triage queue of the Health Risk Predictor service.              *)
(*                                                                         *)
(* The state is the module-level list patient_assessments of main.py, the  *)
(* wall clock, and what the request handlers return.  The handlers of      *)
(* main.py are the actions; the scoring, RL scheduling and wait-time       *)
(* functions of models.py, rl_scheduler.py and utils.py are operators.     *)
(*                                                                         *)
(* Numbers.  The code computes with floats; the model computes the same    *)
(* products exactly, as integers scaled by Scale:                          *)
(*   confidence_score  in tenths            (0.8 is 8)                     *)
(*   critical factor   in tenths            (0.3 is 3)                     *)
(*   age factor        in eightieths        (1 + age/80 is (80+age)/80)    *)
(*   time urgency      in twelfths          (1 + e/120 min is (12+e)/12    *)
(*                                           with e counted in clock ticks *)
(*                                           of TickMinutes minutes)       *)
(* The clock is read in ticks: two readings within one tick are the same   *)
(* datetime, and one handler reads one value of the clock throughout.      *)
(***************************************************************************)
EXTENDS Integers, Sequences, FiniteSets, TLC

\* ------------------------------------------------------------------ bounds

\* Admissions in one behaviour (also the longest queue).
MaxPatients == 2
\* Last reading of the clock, in ticks.
MaxTime == 1
\* Low risk entries in the queue at once.
MaxLow == 1
\* Longest wait of an entry that waits alone, in ticks.
MaxWait == 133
\* Feedback requests in one behaviour.
MaxFeedback == 10
\* update_q_value calls of a learning run.
MaxUpdates == 2
\* update_q_value calls of a run that takes epsilon from 0.1 to min_epsilon.
MaxDecays == 92
\* save_q_table calls in one behaviour.
MaxSaves == 2

\* ------------------------------------------------------- program constants

\* One clock tick, in minutes; the divisors 10, 30, 120 of models.py are
\* 1, 3 and 12 ticks.
TickMinutes == 10
\* utils.py: confidence_score = 0.8  # Default confidence   (in tenths)
DefaultConfidence == 8
\* 10 (confidence) * 12 (time urgency) * 80 (age) * 10 (critical factor)
Scale == 10 * 12 * 80 * 10

RiskLevels == {"High", "Medium", "Low"}

\* str.lower() on the labels the classifier's encoder yields.
Lower(s) ==
  CASE s = "High" -> "high"
    [] s = "Medium" -> "medium"
    [] s = "Low" -> "low"
    [] OTHER -> s

\* A function on 1..n as the sequence (a Python list) it stands for.
List(f) == f \o << >>

Min(a, b) == IF a < b THEN a ELSE b
Max(a, b) == IF a > b THEN a ELSE b

\* ------------------------------------------------------------- models.py

\* vital_signs of an admission with nothing critical, and with all five
\* critical indicators triggered (body_temperature in tenths of a degree).
NormalVitals(age) ==
  [heart_rate |-> 75, respiratory_rate |-> 16, body_temperature |-> 370,
   oxygen_saturation |-> 99, systolic_blood_pressure |-> 115, age |-> age]
CriticalVitals(age) ==
  [heart_rate |-> 125, respiratory_rate |-> 28, body_temperature |-> 400,
   oxygen_saturation |-> 88, systolic_blood_pressure |-> 85, age |-> age]

\* _calculate_critical_vitals_factor returning the sum as it is, with no cap.
_calculate_critical_vitals_factor_uncapped(vs) ==
  LET hr == IF vs.heart_rate < 50 \/ vs.heart_rate > 120 THEN 3 ELSE 0
      bp == IF vs.systolic_blood_pressure < 90 \/ vs.systolic_blood_pressure > 180
            THEN 4 ELSE 0
      ox == IF vs.oxygen_saturation < 90 THEN 5 ELSE 0
      tp == IF vs.body_temperature < 350 \/ vs.body_temperature > 390 THEN 3 ELSE 0
      rr == IF vs.respiratory_rate < 12 \/ vs.respiratory_rate > 25 THEN 2 ELSE 0
  IN hr + bp + ox + tp + rr

\* RiskAssessment._calculate_critical_vitals_factor, in tenths.
_calculate_critical_vitals_factor(vs) ==
  LET hr == IF vs.heart_rate < 50 \/ vs.heart_rate > 120 THEN 3 ELSE 0
      bp == IF vs.systolic_blood_pressure < 90 \/ vs.systolic_blood_pressure > 180
            THEN 4 ELSE 0
      ox == IF vs.oxygen_saturation < 90 THEN 5 ELSE 0
      tp == IF vs.body_temperature < 350 \/ vs.body_temperature > 390 THEN 3 ELSE 0
      rr == IF vs.respiratory_rate < 12 \/ vs.respiratory_rate > 25 THEN 2 ELSE 0
  IN Min(hr + bp + ox + tp + rr, 10)

\* _calculate_time_urgency with the elapsed time subtracted instead of added.
_calculate_time_urgency_decaying(a, t) ==
  LET time_elapsed == t - a.timestamp
  IN CASE Lower(a.risk_level) = "high" -> 12 - 12 * time_elapsed
       [] Lower(a.risk_level) = "medium" -> 12 - 4 * time_elapsed
       [] OTHER -> 12 - time_elapsed

\* _calculate_time_urgency with no growth: 1.0 whatever time has elapsed.
_calculate_time_urgency_flat(a, t) == 12

\* RiskAssessment._calculate_time_urgency at clock reading t, in twelfths:
\* 1 + minutes/10, 1 + minutes/30, 1 + minutes/120.
_calculate_time_urgency(a, t) ==
  LET time_elapsed == t - a.timestamp
  IN CASE Lower(a.risk_level) = "high" -> 12 + 12 * time_elapsed
       [] Lower(a.risk_level) = "medium" -> 12 + 4 * time_elapsed
       [] OTHER -> 12 + time_elapsed

\* risk_weights with the default weight for every level.
risk_weights_flat(level) == 10

\* risk_weights.get(self.risk_level.lower(), 10.0)
risk_weights(level) ==
  CASE level = "high" -> 100
    [] level = "medium" -> 50
    [] level = "low" -> 10
    [] OTHER -> 10

\* RiskAssessment.calculate_priority_score at clock reading t, times Scale.
calculate_priority_score(a, t) ==
  LET base_score == risk_weights(Lower(a.risk_level))
      confidence_factor == a.confidence_score
      time_urgency == _calculate_time_urgency(a, t)
      age_factor == Min(a.vital_signs.age, 120)
      critical_factor == _calculate_critical_vitals_factor(a.vital_signs)
  IN base_score * confidence_factor * time_urgency
       * (80 + age_factor) * (10 + critical_factor)

\* PatientQueue.get_final_priority at clock reading t, times Scale.
get_final_priority(p, t) ==
  LET base_priority == calculate_priority_score(p.risk_assessment, t)
  IN IF Lower(p.risk_assessment.risk_level) = "low"
     THEN base_priority + p.rl_adjustment * Scale
     ELSE base_priority

\* ---------------------------------------------------------- rl_scheduler.py

ActionNames == {"immediate", "delay_15", "delay_30", "delay_60", "delay_120"}

\* action_effects of apply_action_to_patient: delay and priority_boost.
action_delay(action) ==
  CASE action = "immediate" -> 0
    [] action = "delay_15" -> 15
    [] action = "delay_30" -> 30
    [] action = "delay_60" -> 60
    [] action = "delay_120" -> 120
    [] OTHER -> 30
action_boost(action) ==
  CASE action = "immediate" -> 10
    [] action = "delay_15" -> 2
    [] action = "delay_30" -> 0
    [] action = "delay_60" -> 0 - 3
    [] action = "delay_120" -> 0 - 8
    [] OTHER -> 0

\* The wall-clock hour of clock reading t; the service starts at StartHour.
StartHour == 11
HourOf(t) == (StartHour + (t * TickMinutes) \div 60) % 24

\* PatientSchedulerRL.get_state: the state key, as a tuple.
get_state(p, queue_info, t) ==
  LET hour == HourOf(t)
      time_bucket == IF 6 <= hour /\ hour < 12 THEN "morning"
                     ELSE IF 12 <= hour /\ hour < 18 THEN "afternoon"
                     ELSE "evening"
  IN << Lower(p.risk_assessment.risk_level),
        p.risk_assessment.confidence_score,
        Min(queue_info.total_patients, 10),
        Min(queue_info.high_risk_count, 5),
        time_bucket >>

\* PatientSchedulerRL.apply_action_to_patient
apply_action_to_patient(action, p) ==
  [p EXCEPT !.estimated_wait_time = @ + action_delay(action),
            !.rl_adjustment = action_boost(action)]

\* LowIndices without the test of the risk level: every entry.
LowIndices_all(patients) == 1..Len(patients)

\* The indices of the Low risk entries of a list of PatientQueue items: the
\* entries choose_action is called for.
LowIndices(patients) ==
  {i \in 1..Len(patients) : Lower(patients[i].risk_assessment.risk_level) = "low"}

\* What choose_action can return for each Low entry.  Every PriorityManager()
\* builds a fresh PatientSchedulerRL with epsilon = 0.1, so the exploration
\* branch can return any of the five actions at every call.
ActionChoices(patients) == [LowIndices(patients) -> ActionNames]

\* InsertByPriority with the comparison turned around (reverse=True dropped).
InsertByPriority_ascending(p, sorted, t) ==
  LET lower == {i \in 1..Len(sorted) :
                  get_final_priority(sorted[i], t) <= get_final_priority(p, t)}
      k == Cardinality(lower)
  IN SubSeq(sorted, 1, k) \o << p >> \o SubSeq(sorted, k + 1, Len(sorted))

\* InsertByPriority putting an item before the items of equal key: a sort
\* that is not stable.
RECURSIVE InsertByPriority_lifo(_, _, _)
InsertByPriority_lifo(p, sorted, t) ==
  IF sorted = << >> THEN << p >>
  ELSE IF get_final_priority(Head(sorted), t) > get_final_priority(p, t)
       THEN << Head(sorted) >> \o InsertByPriority_lifo(p, Tail(sorted), t)
       ELSE << p >> \o sorted

\* Where a stable sort in descending key order puts an item behind the
\* already sorted ones: after every item whose key is greater or equal.
RECURSIVE InsertByPriority(_, _, _)
InsertByPriority(p, sorted, t) ==
  IF sorted = << >> THEN << p >>
  ELSE IF get_final_priority(Head(sorted), t) >= get_final_priority(p, t)
       THEN << Head(sorted) >> \o InsertByPriority(p, Tail(sorted), t)
       ELSE << p >> \o sorted

\* list.sort(key=get_final_priority, reverse=True): stable, descending.
RECURSIVE SortByPriority(_, _)
SortByPriority(patients, t) ==
  IF patients = << >> THEN << >>
  ELSE InsertByPriority(patients[Len(patients)],
                        SortByPriority(SubSeq(patients, 1, Len(patients) - 1), t), t)

\* PatientSchedulerRL.schedule_patients_with_rl; choice[i] is the action
\* choose_action returns for the Low entry patients[i].
schedule_patients_with_rl(patients, queue_info, choice, t) ==
  LET scheduled == List([i \in 1..Len(patients) |->
        IF i \in LowIndices(patients)
        THEN [apply_action_to_patient(choice[i], patients[i])
                EXCEPT !.rl_state = get_state(patients[i], queue_info, t),
                       !.rl_action = choice[i]]
        ELSE patients[i]])
      sorted == SortByPriority(scheduled, t)
  IN List([i \in 1..Len(sorted) |-> [sorted[i] EXCEPT !.queue_position = i]])

\* PriorityManager.calculate_dynamic_priority
calculate_dynamic_priority(patients, choice, t) ==
  LET queue_info ==
        [total_patients |-> Len(patients),
         high_risk_count |-> Cardinality({i \in 1..Len(patients) :
              Lower(patients[i].risk_assessment.risk_level) = "high"})]
  IN schedule_patients_with_rl(patients, queue_info, choice, t)

\* PatientSchedulerRL.__init__: epsilon=0.1, in thousandths.
InitialEpsilon == 100

\* A row of the Q-table when a state is first touched: every action at 0.0.
ZeroRow == [action \in ActionNames |-> 0]

\* PatientSchedulerRL.get_reward, in two-thousandths; satisfaction_score and
\* resource_utilization of the outcome are in tenths.
get_reward(action, risk_level, outcome) ==
  LET wait_time_actual == outcome.actual_wait_time
      patient_satisfaction == outcome.satisfaction_score
      resource_utilization == outcome.resource_utilization
      penalty == IF wait_time_actual > 120 THEN 0 - 10
                 ELSE IF wait_time_actual > 60 THEN 0 - 5
                 ELSE IF wait_time_actual > 30 THEN 0 - 2
                 ELSE 0
      bonus == IF Lower(risk_level) = "low"
               THEN IF action \in {"delay_30", "delay_60"} /\ patient_satisfaction > 7
                    THEN 3
                    ELSE IF action = "immediate" /\ resource_utilization < 3
                         THEN 0 - 2
                         ELSE 0
               ELSE 0
  IN 2000 * penalty + 2000 * patient_satisfaction + 1000 * resource_utilization
       + 2000 * bonus

\* update_q_value writing new_q to every action of the row of state.
update_q_value_whole_row(q_table, state, action, reward, next_state) ==
  LET with_state == IF state \in DOMAIN q_table THEN q_table
                    ELSE q_table @@ (state :> ZeroRow)
      with_next == IF next_state \in DOMAIN with_state THEN with_state
                   ELSE with_state @@ (next_state :> ZeroRow)
      current_q == with_next[state][action]
      max_next_q == CHOOSE v \in {with_next[next_state][a] : a \in ActionNames} :
                      \A a \in ActionNames : with_next[next_state][a] <= v
      new_q == current_q
                 + (reward + (95 * max_next_q) \div 100 - current_q) \div 10
  IN [with_next EXCEPT ![state] = [a \in ActionNames |-> new_q]]

\* PatientSchedulerRL.update_q_value with learning_rate 0.1 and
\* discount_factor 0.95: the table afterwards.  Values are in two-thousandths;
\* the divisions are exact when the rows touched hold 0.0.
update_q_value(q_table, state, action, reward, next_state) ==
  LET with_state == IF state \in DOMAIN q_table THEN q_table
                    ELSE q_table @@ (state :> ZeroRow)
      with_next == IF next_state \in DOMAIN with_state THEN with_state
                   ELSE with_state @@ (next_state :> ZeroRow)
      current_q == with_next[state][action]
      max_next_q == CHOOSE v \in {with_next[next_state][a] : a \in ActionNames} :
                      \A a \in ActionNames : with_next[next_state][a] <= v
      new_q == current_q
                 + (reward + (95 * max_next_q) \div 100 - current_q) \div 10
  IN [with_next EXCEPT ![state][action] = new_q]

\* ------------------------------------------ selection and epsilon decay

\* self.min_epsilon, in thousandths.
min_epsilon == 10

\* update_q_value line 145 without the max(self.min_epsilon, ...).
decay_epsilon_unclamped(epsilon) == (epsilon * 995) \div 1000

\* update_q_value line 145: max(min_epsilon, epsilon * epsilon_decay) with
\* epsilon_decay 0.995; epsilon in thousandths, rounded down.
decay_epsilon(epsilon) == Max(min_epsilon, (epsilon * 995) \div 1000)

\* self.actions.keys() in the order of the dict.
ActionOrder == << "immediate", "delay_15", "delay_30", "delay_60", "delay_120" >>

\* max(row, key=row.get): the first action of the dict with the largest value.
BestAction(row) ==
  ActionOrder[CHOOSE i \in 1..Len(ActionOrder) :
     /\ \A j \in 1..Len(ActionOrder) : row[ActionOrder[j]] <= row[ActionOrder[i]]
     /\ \A j \in 1..(i - 1) : row[ActionOrder[j]] < row[ActionOrder[i]]]

\* choose_action giving a new state a row that holds the chosen action only.
choose_action_sparse(scheduler, state, explore, random_action) ==
  LET action == IF explore \/ state \notin DOMAIN scheduler.q_table
                THEN random_action
                ELSE BestAction(scheduler.q_table[state])
      q_table == IF state \in DOMAIN scheduler.q_table THEN scheduler.q_table
                 ELSE scheduler.q_table @@ (state :> [a \in {action} |-> 0])
  IN [scheduler |-> [scheduler EXCEPT !.q_table = q_table], action |-> action]

\* PatientSchedulerRL.choose_action: the scheduler afterwards and the action
\* returned.  explore is the outcome of np.random.random() < self.epsilon,
\* random_action that of np.random.choice.
choose_action(scheduler, state, explore, random_action) ==
  LET q_table == IF state \in DOMAIN scheduler.q_table THEN scheduler.q_table
                 ELSE scheduler.q_table @@ (state :> ZeroRow)
  IN [scheduler |-> [scheduler EXCEPT !.q_table = q_table],
      action |-> IF explore THEN random_action ELSE BestAction(q_table[state])]

\* PatientSchedulerRL.provide_feedback: the body is `pass`; the table is
\* left as it is.
rl_scheduler_provide_feedback(q_table, patient_id, outcome) == q_table

\* PatientSchedulerRL.load_q_table: the table of the file; {} without one.
load_q_table(file) == file

\* PriorityManager(): a new PatientSchedulerRL, which loads the table, and an
\* empty patient_history.
PriorityManager(file) ==
  [q_table |-> load_q_table(file), epsilon |-> InitialEpsilon,
   patient_history |-> << >>]

\* PriorityManager.update_with_outcome up to the test for the periodic save:
\* the manager afterwards.
update_with_outcome(manager, patient_id, outcome, t) ==
  [q_table |-> rl_scheduler_provide_feedback(manager.q_table, patient_id, outcome),
   epsilon |-> manager.epsilon,
   patient_history |->
     Append(manager.patient_history,
            [patient_id |-> patient_id, outcome |-> outcome, timestamp |-> t])]

\* ------------------------------------------------------------------ utils.py

\* base_time_per_patient.get(risk_level, 20)
base_time_per_patient(level) ==
  CASE level = "high" -> 15
    [] level = "medium" -> 20
    [] level = "low" -> 25
    [] OTHER -> 20

\* calculate_estimated_wait_time without the max(0, ...) for High risk.
calculate_estimated_wait_time_unfloored(p, position) ==
  LET risk_level == Lower(p.risk_assessment.risk_level)
      estimated_wait == position * base_time_per_patient(risk_level)
  IN IF risk_level = "high" THEN estimated_wait - 10 ELSE estimated_wait

\* calculate_estimated_wait_time counting the entry itself: position + 1.
calculate_estimated_wait_time_from_one(p, position) ==
  LET risk_level == Lower(p.risk_assessment.risk_level)
      estimated_wait == (position + 1) * base_time_per_patient(risk_level)
  IN IF risk_level = "high" THEN Max(0, estimated_wait - 10) ELSE estimated_wait

\* calculate_estimated_wait_time(patient, position), position 0-based.
calculate_estimated_wait_time(p, position) ==
  LET risk_level == Lower(p.risk_assessment.risk_level)
      estimated_wait == position * base_time_per_patient(risk_level)
  IN IF risk_level = "high" THEN Max(0, estimated_wait - 10) ELSE estimated_wait

\* The PatientQueue item manage_patient_queue builds for the i-th assessment:
\* patient_id is f"patient_{i}_{int(timestamp)}", kept as the pair it prints.
NoRL == "None"
PatientQueueItem(i, assessment) ==
  [patient_id |-> << i, assessment.timestamp >>,
   risk_assessment |-> assessment,
   queue_position |-> 0,
   estimated_wait_time |-> 0,
   rl_adjustment |-> 0,
   rl_state |-> << >>,
   rl_action |-> NoRL]

\* manage_patient_queue lines 129-140: one item per assessment, in list order.
NewPatientQueue(assessments) ==
  List([i \in 1..Len(assessments) |-> PatientQueueItem(i, assessments[i])])

\* manage_patient_queue publishing the 0-based enumerate index as position.
manage_patient_queue_zero_based(assessments, choice, t) ==
  LET sorted_queue == calculate_dynamic_priority(NewPatientQueue(assessments), choice, t)
  IN List([i \in 1..Len(sorted_queue) |->
        [sorted_queue[i] EXCEPT
           !.queue_position = i - 1,
           !.estimated_wait_time = calculate_estimated_wait_time(sorted_queue[i], i - 1)]])

\* manage_patient_queue(patient_assessments) at clock reading t.
manage_patient_queue(assessments, choice, t) ==
  LET patient_queue == NewPatientQueue(assessments)
      sorted_queue == calculate_dynamic_priority(patient_queue, choice, t)
  IN List([i \in 1..Len(sorted_queue) |->
        [sorted_queue[i] EXCEPT
           !.queue_position = i,
           !.estimated_wait_time = calculate_estimated_wait_time(sorted_queue[i], i - 1)]])

\* ------------------------------------------------------------------ state

VARIABLES
  patient_assessments,  \* main.py: the module-level list of RiskAssessment
  now,                  \* datetime.now(), in ticks
  nextUid,              \* identity of the next RiskAssessment object created
  resp,                 \* the result of the request being answered, if any
  served,               \* identities handed out by completed /queue/next/ calls
  threads,              \* the worker threads of the pool: where each one is in
                        \* its handler, and the handler's local variables
  admitted,             \* identities whose /predict/ call has returned
  removed,              \* identities a /queue/next/ or /queue/clear/ took out
  twice,                \* identities handed out by more than one /queue/next/
  q_table_json,         \* the Q-table in the file q_table.json
  patient_history,      \* patient_history of the PriorityManager of the
                        \* request being answered
  feedback_count,       \* /feedback/ requests received so far
  save_count,           \* calls of save_q_table so far
  received,             \* the response the client was last sent
  rl_scheduler,         \* a PatientSchedulerRL object: its q_table and epsilon
  q_table_file,         \* q_table.json as it is on disk
  saving,               \* the save_q_table call in progress, if any
  rl_call               \* the call made last on rl_scheduler

vars == << patient_assessments, now, nextUid, resp, served,
           threads, admitted, removed, twice,
           q_table_json, patient_history, feedback_count, save_count,
           received,
           rl_scheduler, q_table_file, saving, rl_call >>

\* What only the calls on the scheduler object change.
rlVars == << rl_scheduler, q_table_file, saving, rl_call >>

\* What only the feedback path changes.
fbVars == << q_table_json, patient_history, feedback_count, save_count >>

\* A Q-table with no state: the dict {} of PatientSchedulerRL.__init__, and
\* what load_q_table leaves when there is no file.
EmptyTable == [state \in {} |-> [action \in {} |-> 0]]


\* What only the worker threads of the concurrent service change.
concVars == << threads, admitted, removed, twice >>

\* The worker threads FastAPI runs the (synchronous) handlers on.
Threads == {"t1", "t2"}

\* A worker thread with no request: pc is its place in the handler, op the
\* handler, the rest the handler's locals.  frozen tells that the list object
\* the thread iterates is no longer the one the global name is bound to
\* (clear_queue rebound it), lst is then that object's contents.
IdleThread ==
  [pc |-> "idle", op |-> "none", frozen |-> FALSE, lst |-> << >>, idx |-> 0,
   acc |-> << >>, mine |-> 0, next_patient |-> << >>, filtered |-> << >>,
   status |-> 0, detail |-> "", queue |-> << >>, count |-> 0, seen |-> {}]

\* What create_risk_assessment_with_priority can be given by the classifier:
\* risk label, confidence (tenths) and the vital signs of the request.
Profiles ==
  [risk_level : RiskLevels,
   confidence_score : {DefaultConfidence},
   vital_signs : {NormalVitals(25)}]

\* Identities of a list of assessments, in list order.
Uids(assessments) == List([i \in 1..Len(assessments) |-> assessments[i].uid])
UidSet(assessments) == {assessments[i].uid : i \in 1..Len(assessments)}

\* A handler's result.  queue holds the PatientQueue items the handler
\* computed, patient the item /queue/next/ returns (a list of one), before the
\* identities in patient_assessments when the handler started.
Response(op, status, detail, queue, count, wait, before) ==
  [op |-> op, status |-> status, detail |-> detail, queue |-> queue,
   patient |-> << >>, count |-> count, estimated_wait_time |-> wait,
   before |-> before, patient_id |-> << >>, q_table |-> EmptyTable,
   epsilon |-> InitialEpsilon]

NoResponse == Response("none", 0, "", << >>, 0, 0, << >>)

\* main.py lines 190-192: HTTPException(status_code=404, detail="No patients in queue")
EmptyQueueResponse_generic == Response("next", 500, "Internal Server Error", << >>, 0, 0, << >>)
EmptyQueueResponse == Response("next", 404, "No patients in queue", << >>, 0, 0, << >>)

\* ------------------------------------------------------------ q_table.json

\* The state keys the scheduler is asked about: what get_state returns for a
\* Low entry of confidence 0.8 in the morning, alone and behind one other
\* entry.  The order is the order the keys are written in.
LearnStates ==
  << << "low", DefaultConfidence, 1, 0, "morning" >>,
     << "low", DefaultConfidence, 2, 0, "morning" >> >>
LearnStateSet == {LearnStates[i] : i \in 1..Len(LearnStates)}

\* No q_table.json in the directory of the module.
NoFile == [exists |-> FALSE, readable |-> FALSE, text |-> << >>]

\* A file open() can read, holding text.
FileOf(text) == [exists |-> TRUE, readable |-> TRUE, text |-> text]

\* json.dump(self.q_table, f, indent=2): the text, as the pieces that reach
\* the file one after the other: the opening brace, one piece for every
\* state key with its row, the closing brace.
json_dump(q_table) ==
  LET keys == SelectSeq(LearnStates, LAMBDA s : s \in DOMAIN q_table)
  IN << [kind |-> "open"] >>
       \o [i \in 1..Len(keys) |->
             [kind |-> "row", state |-> keys[i], row |-> q_table[keys[i]]]]
       \o << [kind |-> "close"] >>

\* Whether json.load accepts the text: an object from its opening to its
\* closing brace.  Anything else raises JSONDecodeError.
json_valid(text) ==
  /\ Len(text) >= 2
  /\ text[1].kind = "open"
  /\ text[Len(text)].kind = "close"
  /\ \A i \in 2..(Len(text) - 1) : text[i].kind = "row"

\* json.load(f) of a text it accepts: the dict of the rows.
json_load(text) ==
  LET rows == {i \in 2..(Len(text) - 1) : TRUE}
  IN [state \in {text[i].state : i \in rows} |->
        text[CHOOSE i \in rows : text[i].state = state].row]

\* load_q_table keeping the rows read before the text broke off.
load_q_table_file_partial(file) ==
  IF ~file.exists \/ ~file.readable THEN EmptyTable
  ELSE LET rows == {i \in 1..Len(file.text) : file.text[i].kind = "row"}
       IN [state \in {file.text[i].state : i \in rows} |->
             file.text[CHOOSE i \in rows : file.text[i].state = state].row]

\* PatientSchedulerRL.load_q_table on the file as it is on disk: without a
\* file self.q_table stays the {} of __init__; open() or json.load raising
\* is caught and leaves {}.
load_q_table_file(file) ==
  IF ~file.exists THEN EmptyTable
  ELSE IF ~file.readable \/ ~json_valid(file.text) THEN EmptyTable
  ELSE json_load(file.text)

\* PatientSchedulerRL(): the defaults of __init__, then load_q_table.
PatientSchedulerRL(file) ==
  [q_table |-> load_q_table_file(file), epsilon |-> InitialEpsilon]

\* PatientSchedulerRL.update_q_value: the scheduler afterwards.
PatientSchedulerRL_update_q_value(scheduler, state, action, reward, next_state) ==
  [q_table |-> update_q_value(scheduler.q_table, state, action, reward, next_state),
   epsilon |-> decay_epsilon(scheduler.epsilon)]

\* No save_q_table is running.
NotSaving == [pc |-> "idle", pending |-> << >>, previous |-> NoFile, saves |-> 0]

\* The call of the scheduler made last, with its arguments; action is the
\* action passed to update_q_value or returned by choose_action, loaded
\* the table a load_q_table read, updates the number of update_q_value
\* calls so far.
RLCall(op, state, action, reward, next_state, loaded, updates) ==
  [op |-> op, state |-> state, action |-> action, reward |-> reward,
   next_state |-> next_state, loaded |-> loaded, updates |-> updates]

NoCall == RLCall("__init__", << >>, NoRL, 0, << >>, EmptyTable, 0)

\* The scheduler the module would build at start, with no file.
InitRL ==
  /\ q_table_file = NoFile
  /\ rl_scheduler = PatientSchedulerRL(NoFile)
  /\ saving = NotSaving
  /\ rl_call = NoCall

\* The service starts with no q_table.json and no feedback received; the
\* client has been sent nothing.
InitFeedback ==
  /\ q_table_json = EmptyTable
  /\ patient_history = << >>
  /\ feedback_count = 0
  /\ save_count = 0
  /\ received = NoResponse

Init ==
  /\ patient_assessments = << >>
  /\ now = 0
  /\ nextUid = 1
  /\ resp = NoResponse
  /\ served = {}
  /\ threads = [t \in Threads |-> IdleThread]
  /\ admitted = {}
  /\ removed = {}
  /\ twice = {}
  /\ InitFeedback
  /\ InitRL

\* utils.create_risk_assessment_with_priority: the RiskAssessment of a request.
create_risk_assessment_with_priority(profile, uid, t) ==
  [risk_level |-> profile.risk_level,
   confidence_score |-> profile.confidence_score,
   vital_signs |-> profile.vital_signs,
   timestamp |-> t,
   uid |-> uid]

\* main.py lines 76-82: the wait of the first item of current_queue whose
\* timestamp is less than one second from the new assessment's.
MatchingWait(current_queue, risk_assessment) ==
  LET hits == {i \in 1..Len(current_queue) :
                 current_queue[i].risk_assessment.timestamp = risk_assessment.timestamp}
  IN IF hits = {} THEN 0
     ELSE current_queue[CHOOSE i \in hits : \A j \in hits : i <= j].estimated_wait_time

\* POST /predict/ for a request the classifier maps to one of profiles.
Admit(profiles) ==
  /\ resp = NoResponse
  /\ nextUid <= MaxPatients
  /\ \E profile \in profiles :
       LET risk_assessment == create_risk_assessment_with_priority(profile, nextUid, now)
           appended == Append(patient_assessments, risk_assessment)
       IN /\ Cardinality(LowIndices(NewPatientQueue(appended))) <= MaxLow
          /\ \E choice \in ActionChoices(NewPatientQueue(appended)) :
               LET current_queue == manage_patient_queue(appended, choice, now)
               IN /\ patient_assessments' = appended
                  /\ resp' = Response("predict", 200, "", current_queue, 0,
                                      MatchingWait(current_queue, risk_assessment),
                                      Uids(patient_assessments))
  /\ nextUid' = nextUid + 1
  /\ UNCHANGED << now, served >>
  /\ UNCHANGED concVars
  /\ UNCHANGED fbVars
  /\ UNCHANGED received
  /\ UNCHANGED rlVars

\* POST /predict/
predict_risk_with_priority == Admit(Profiles)

\* GET /queue/
get_patient_queue ==
  /\ resp = NoResponse
  /\ IF patient_assessments = << >>
     THEN resp' = Response("queue", 200, "", << >>, 0, 0, << >>)
     ELSE \E choice \in ActionChoices(NewPatientQueue(patient_assessments)) :
            resp' = Response("queue", 200, "",
                             manage_patient_queue(patient_assessments, choice, now),
                             0, 0, Uids(patient_assessments))
  /\ UNCHANGED << patient_assessments, now, nextUid, served >>
  /\ UNCHANGED concVars
  /\ UNCHANGED fbVars
  /\ UNCHANGED received
  /\ UNCHANGED rlVars

\* POST /queue/update-priorities/
update_queue_priorities ==
  /\ resp = NoResponse
  /\ IF patient_assessments = << >>
     THEN resp' = Response("update", 200, "No patients in queue", << >>, 0, 0, << >>)
     ELSE \E choice \in ActionChoices(NewPatientQueue(patient_assessments)) :
            LET updated_queue == manage_patient_queue(patient_assessments, choice, now)
            IN resp' = Response("update", 200, "Updated priorities", << >>,
                                Len(updated_queue), 0, Uids(patient_assessments))
  /\ UNCHANGED << patient_assessments, now, nextUid, served >>
  /\ UNCHANGED concVars
  /\ UNCHANGED fbVars
  /\ UNCHANGED received
  /\ UNCHANGED rlVars

\* clear_queue taking len(patient_assessments) after the list is emptied.
clear_queue_count_after ==
  /\ resp = NoResponse
  /\ resp' = Response("clear", 200, "Cleared", << >>, 0, 0, Uids(patient_assessments))
  /\ patient_assessments' = << >>
  /\ UNCHANGED << now, nextUid, served >>
  /\ UNCHANGED concVars
  /\ UNCHANGED fbVars
  /\ UNCHANGED received
  /\ UNCHANGED rlVars

\* DELETE /queue/clear/
clear_queue ==
  /\ resp = NoResponse
  /\ resp' = Response("clear", 200, "Cleared", << >>, Len(patient_assessments), 0,
                      Uids(patient_assessments))
  /\ patient_assessments' = << >>
  /\ UNCHANGED << now, nextUid, served >>
  /\ UNCHANGED concVars
  /\ UNCHANGED fbVars
  /\ UNCHANGED received
  /\ UNCHANGED rlVars

\* main.py lines 205-208: the assessments kept when next_patient is removed.
RemoveServed(assessments, next_patient) ==
  SelectSeq(assessments,
            LAMBDA a : a.timestamp # next_patient.risk_assessment.timestamp)

\* GET /queue/next/.  PriorityManager.get_next_patient schedules current_queue
\* once more and returns the first item: updated_patients[0].
get_next_patient ==
  /\ resp = NoResponse
  /\ IF patient_assessments = << >>
     THEN /\ resp' = EmptyQueueResponse
          /\ UNCHANGED << patient_assessments, served >>
     ELSE \E choice \in ActionChoices(NewPatientQueue(patient_assessments)) :
            LET current_queue == manage_patient_queue(patient_assessments, choice, now)
            IN \E again \in ActionChoices(current_queue) :
                 LET updated_patients == calculate_dynamic_priority(current_queue, again, now)
                     next_patient == updated_patients[1]
                 IN /\ patient_assessments' = RemoveServed(patient_assessments, next_patient)
                    /\ resp' = [Response("next", 200, "", updated_patients, 0, 0,
                                         Uids(patient_assessments))
                                  EXCEPT !.patient = << next_patient >>]
                    /\ served' = served \cup {next_patient.risk_assessment.uid}
  /\ UNCHANGED << now, nextUid >>
  /\ UNCHANGED concVars
  /\ UNCHANGED fbVars
  /\ UNCHANGED received
  /\ UNCHANGED rlVars

\* The response is sent; the service takes the next request.
Return ==
  /\ resp # NoResponse
  /\ resp' = NoResponse
  /\ patient_history' = << >>
  /\ UNCHANGED << patient_assessments, now, nextUid, served >>
  /\ UNCHANGED concVars
  /\ UNCHANGED << q_table_json, feedback_count, save_count, received >>
  /\ UNCHANGED rlVars

\* Time passes between requests.
Tick ==
  /\ resp = NoResponse
  /\ now < MaxTime
  /\ now' = now + 1
  /\ UNCHANGED << patient_assessments, nextUid, resp, served >>
  /\ UNCHANGED concVars
  /\ UNCHANGED fbVars
  /\ UNCHANGED received
  /\ UNCHANGED rlVars

Next ==
  \/ predict_risk_with_priority
  \/ get_patient_queue
  \/ update_queue_priorities
  \/ clear_queue
  \/ get_next_patient
  \/ Return
  \/ Tick

Spec == Init /\ [][Next]_vars


\* ------------------------------------------------------------- feedback

\* An id no queue has issued, as the test's "test_patient_123".
UnknownId == << 0, 0 >>

\* The patient_id values a /feedback/ request carries: the ids the queue can
\* issue and an unknown one.
FeedbackIds ==
  {<< i, t >> : i \in 1..MaxPatients, t \in 0..MaxTime} \cup {UnknownId}

\* The outcomes a /feedback/ request carries: minutes waited, satisfaction
\* and utilization in tenths.
Outcomes ==
  [actual_wait_time : {30, 130}, satisfaction_score : {8},
   resource_utilization : {7}]

\* POST /feedback/
provide_feedback ==
  /\ resp = NoResponse
  /\ feedback_count < MaxFeedback
  /\ \E patient_id \in FeedbackIds, outcome \in Outcomes :
       LET priority_manager == PriorityManager(q_table_json)
           updated == update_with_outcome(priority_manager, patient_id, outcome, now)
           save == Len(updated.patient_history) % 10 = 0
       IN /\ patient_history' = updated.patient_history
          /\ q_table_json' = IF save THEN updated.q_table ELSE q_table_json
          /\ save_count' = IF save THEN save_count + 1 ELSE save_count
          /\ resp' = [Response("feedback", 200,
                               "Feedback received and RL system updated",
                               << >>, 0, 0, Uids(patient_assessments))
                        EXCEPT !.patient_id = << patient_id >>,
                               !.q_table = updated.q_table,
                               !.epsilon = updated.epsilon]
  /\ feedback_count' = feedback_count + 1
  /\ UNCHANGED << patient_assessments, now, nextUid, served, received >>
  /\ UNCHANGED rlVars
  /\ UNCHANGED concVars

NextFeedback ==
  \/ predict_risk_with_priority
  \/ get_next_patient
  \/ provide_feedback
  \/ Return
  \/ Tick

SpecFeedback == Init /\ [][NextFeedback]_vars

\* -------------------------------------------------------- failed admission

\* Where POST /predict/ can fail before the classifier has answered: the body
\* does not fit the VitalSigns schema (FastAPI answers 422 without calling
\* the handler), or the scaler or the model raises inside
\* create_risk_assessment_with_priority (FastAPI answers 500).
AdmissionFailures == {"validation", "classifier"}

FailedResponse(failure, before) ==
  IF failure = "validation"
  THEN Response("predict", 422, "Unprocessable Entity", << >>, 0, 0, before)
  ELSE Response("predict", 500, "Internal Server Error", << >>, 0, 0, before)

\* POST /predict/ appending an assessment before the classifier is asked.
predict_risk_with_priority_raises_after_append ==
  /\ resp = NoResponse
  /\ nextUid <= MaxPatients
  /\ \E failure \in AdmissionFailures, profile \in Profiles :
       /\ patient_assessments' =
            Append(patient_assessments,
                   create_risk_assessment_with_priority(profile, nextUid, now))
       /\ resp' = FailedResponse(failure, Uids(patient_assessments))
  /\ nextUid' = nextUid + 1
  /\ UNCHANGED << now, served >>
  /\ UNCHANGED concVars
  /\ UNCHANGED fbVars
  /\ UNCHANGED received
  /\ UNCHANGED rlVars

\* POST /predict/ for a request that fails: the exception leaves the handler
\* at main.py line 65 or earlier, before the append of line 70.
predict_risk_with_priority_raises ==
  /\ resp = NoResponse
  /\ \E failure \in AdmissionFailures :
       resp' = FailedResponse(failure, Uids(patient_assessments))
  /\ UNCHANGED << patient_assessments, now, nextUid, served >>
  /\ UNCHANGED concVars
  /\ UNCHANGED fbVars
  /\ UNCHANGED received
  /\ UNCHANGED rlVars

NextFailure ==
  \/ predict_risk_with_priority
  \/ predict_risk_with_priority_raises
  \/ get_patient_queue
  \/ get_next_patient
  \/ Return
  \/ Tick

SpecFailure == Init /\ [][NextFailure]_vars

\* ------------------------------------------- handlers on concurrent threads

\* The handlers are plain functions, which FastAPI runs on a pool of worker
\* threads with no lock around patient_assessments.  A thread can be
\* suspended between two statements and between two rounds of a loop; the
\* steps below are the handlers cut at those points.  Method calls on the
\* list (append, the slice assignment, the comprehension) are one step each.

\* The contents of the list object thread t iterates.
ListOf(t) ==
  IF threads[t].frozen THEN threads[t].lst ELSE patient_assessments

\* The identities of a list of PatientQueue items, in list order.
QueueUids(q) == List([i \in 1..Len(q) |-> q[i].risk_assessment.uid])

\* The threads after the global list came to hold contents: a thread
\* computing a /queue/ snapshot has one more view of the queue it could show.
Observe(th, contents) ==
  [u \in Threads |->
     IF th[u].op = "queue" /\ th[u].pc = "iter"
     THEN [th[u] EXCEPT !.seen = @ \cup {UidSet(contents)}]
     ELSE th[u]]

\* The threads after the global name was bound to a new list: a thread in the
\* loop of manage_patient_queue keeps the list object it was called with.
Rebind(th, old) ==
  [u \in Threads |->
     IF th[u].pc = "iter" /\ ~th[u].frozen
     THEN [th[u] EXCEPT !.frozen = TRUE, !.lst = old]
     ELSE th[u]]

\* A handler's locals when it has its result and is about to return it.
Done(th, status, detail, queue) ==
  [th EXCEPT !.pc = "done", !.frozen = FALSE, !.lst = << >>, !.idx = 0,
             !.acc = << >>, !.filtered = << >>,
             !.status = status, !.detail = detail, !.queue = queue]

\* POST /predict/, main.py lines 65-70: the assessment is created and
\* appended; manage_patient_queue is called next.
predict_append(t) ==
  /\ threads[t].pc = "idle"
  /\ nextUid <= MaxPatients
  /\ \E profile \in Profiles :
       LET risk_assessment == create_risk_assessment_with_priority(profile, nextUid, now)
           appended == Append(patient_assessments, risk_assessment)
       IN /\ Cardinality(LowIndices(NewPatientQueue(appended))) <= MaxLow
          /\ patient_assessments' = appended
          /\ threads' = [Observe(threads, appended) EXCEPT
                           ![t] = [IdleThread EXCEPT !.pc = "iter", !.op = "predict",
                                                     !.mine = nextUid]]
  /\ nextUid' = nextUid + 1
  /\ UNCHANGED << now, resp, served, admitted, removed, twice >>
  /\ UNCHANGED fbVars
  /\ UNCHANGED received
  /\ UNCHANGED rlVars

\* GET /queue/, main.py lines 112-115: [] for an empty list, otherwise
\* manage_patient_queue is called with the list.
get_patient_queue_begin(t) ==
  /\ threads[t].pc = "idle"
  /\ threads' = [threads EXCEPT ![t] =
       IF patient_assessments = << >>
       THEN [Done(IdleThread, 200, "", << >>) EXCEPT
               !.op = "queue", !.seen = {UidSet(patient_assessments)}]
       ELSE [IdleThread EXCEPT !.pc = "iter", !.op = "queue",
                               !.seen = {UidSet(patient_assessments)}]]
  /\ UNCHANGED << patient_assessments, now, nextUid, resp, served,
                  admitted, removed, twice >>
  /\ UNCHANGED fbVars
  /\ UNCHANGED received
  /\ UNCHANGED rlVars

\* GET /queue/next/, main.py lines 190-196: 404 for an empty list, otherwise
\* manage_patient_queue is called with the list.
get_next_patient_begin(t) ==
  /\ threads[t].pc = "idle"
  /\ threads' = [threads EXCEPT ![t] =
       IF patient_assessments = << >>
       THEN [Done(IdleThread, EmptyQueueResponse.status, EmptyQueueResponse.detail, << >>)
               EXCEPT !.op = "next"]
       ELSE [IdleThread EXCEPT !.pc = "iter", !.op = "next"]]
  /\ UNCHANGED << patient_assessments, now, nextUid, resp, served,
                  admitted, removed, twice >>
  /\ UNCHANGED fbVars
  /\ UNCHANGED received
  /\ UNCHANGED rlVars

\* utils.py lines 132-140: one round of the loop over the list, which reads
\* the element at the iterator's index from the list as it is now.
manage_patient_queue_iterate(t) ==
  /\ threads[t].pc = "iter"
  /\ threads[t].idx < Len(ListOf(t))
  /\ threads' = [threads EXCEPT
       ![t].acc = Append(@, ListOf(t)[threads[t].idx + 1]),
       ![t].idx = @ + 1]
  /\ UNCHANGED << patient_assessments, now, nextUid, resp, served,
                  admitted, removed, twice >>
  /\ UNCHANGED fbVars
  /\ UNCHANGED received
  /\ UNCHANGED rlVars

\* utils.py lines 143-150 once the loop has found the list exhausted, and
\* what the calling handler does with the queue up to its next access to the
\* list: /predict/ and /queue/ have their result, /queue/next/ has
\* next_patient (main.py lines 197-202).
manage_patient_queue_finish(t) ==
  LET th == threads[t]
  IN /\ th.pc = "iter"
     /\ th.idx >= Len(ListOf(t))
     /\ \E choice \in ActionChoices(NewPatientQueue(th.acc)) :
          LET current_queue == manage_patient_queue(th.acc, choice, now)
          IN IF th.op # "next"
             THEN threads' = [threads EXCEPT
                    ![t] = Done(th, 200, "", QueueUids(current_queue))]
             ELSE IF current_queue = << >>
             THEN threads' = [threads EXCEPT
                    ![t] = Done(th, 404, "No patients available", << >>)]
             ELSE \E again \in ActionChoices(current_queue) :
                    LET updated_patients ==
                          calculate_dynamic_priority(current_queue, again, now)
                    IN threads' = [threads EXCEPT
                         ![t] = [IdleThread EXCEPT
                                   !.pc = "filter", !.op = "next",
                                   !.next_patient =
                                      << [risk_assessment |->
                                            updated_patients[1].risk_assessment] >>]]
     /\ UNCHANGED << patient_assessments, now, nextUid, resp, served,
                     admitted, removed, twice >>
     /\ UNCHANGED fbVars
     /\ UNCHANGED received
     /\ UNCHANGED rlVars

\* main.py lines 205-208, the right-hand side: the comprehension over the
\* list as it is now.
get_next_patient_filter(t) ==
  /\ threads[t].pc = "filter"
  /\ threads' = [threads EXCEPT
       ![t].pc = "store",
       ![t].filtered = RemoveServed(patient_assessments, threads[t].next_patient[1])]
  /\ UNCHANGED << patient_assessments, now, nextUid, resp, served,
                  admitted, removed, twice >>
  /\ UNCHANGED fbVars
  /\ UNCHANGED received
  /\ UNCHANGED rlVars

\* main.py line 205, the slice assignment: the list the global name is bound
\* to now gets the filtered contents.  The entries this call takes out are
\* those of the returned entry's timestamp.
get_next_patient_store(t) ==
  LET th == threads[t]
      taken == {a.uid : a \in {patient_assessments[i] : i \in 1..Len(patient_assessments)}}
                 \ UidSet(RemoveServed(patient_assessments, th.next_patient[1]))
  IN /\ th.pc = "store"
     /\ patient_assessments' = th.filtered
     /\ removed' = removed \cup taken \cup {th.next_patient[1].risk_assessment.uid}
     /\ threads' = [Observe(threads, th.filtered) EXCEPT
                      ![t] = Done(th, 200, "", << >>)]
     /\ UNCHANGED << now, nextUid, resp, served, admitted, twice >>
     /\ UNCHANGED fbVars
     /\ UNCHANGED received
     /\ UNCHANGED rlVars

\* DELETE /queue/clear/, main.py line 154: patient_count = len(patient_assessments)
clear_queue_len(t) ==
  /\ threads[t].pc = "idle"
  /\ threads' = [threads EXCEPT
       ![t] = [IdleThread EXCEPT !.pc = "rebind", !.op = "clear",
                                 !.count = Len(patient_assessments)]]
  /\ UNCHANGED << patient_assessments, now, nextUid, resp, served,
                  admitted, removed, twice >>
  /\ UNCHANGED fbVars
  /\ UNCHANGED received
  /\ UNCHANGED rlVars

\* main.py line 155: patient_assessments = [], a new list object.
clear_queue_rebind(t) ==
  /\ threads[t].pc = "rebind"
  /\ patient_assessments' = << >>
  /\ removed' = removed \cup UidSet(patient_assessments)
  /\ threads' = [Observe(Rebind(threads, patient_assessments), << >>) EXCEPT
                   ![t] = Done(threads[t], 200, "Cleared", << >>)]
  /\ UNCHANGED << now, nextUid, resp, served, admitted, twice >>
  /\ UNCHANGED fbVars
  /\ UNCHANGED received
  /\ UNCHANGED rlVars

\* The handler returns and the thread goes back to the pool.
respond(t) ==
  LET th == threads[t]
      uid == IF th.next_patient = << >> THEN 0
             ELSE th.next_patient[1].risk_assessment.uid
  IN /\ th.pc = "done"
     /\ threads' = [threads EXCEPT ![t] = IdleThread]
     /\ admitted' = IF th.op = "predict" THEN admitted \cup {th.mine} ELSE admitted
     /\ served' = IF th.op = "next" /\ th.status = 200
                  THEN served \cup {uid} ELSE served
     /\ twice' = IF th.op = "next" /\ th.status = 200 /\ uid \in served
                 THEN twice \cup {uid} ELSE twice
     /\ UNCHANGED << patient_assessments, now, nextUid, resp, removed >>
     /\ UNCHANGED fbVars
     /\ UNCHANGED received
     /\ UNCHANGED rlVars

NextConc ==
  \/ \E t \in Threads : predict_append(t)
  \/ \E t \in Threads : get_patient_queue_begin(t)
  \/ \E t \in Threads : get_next_patient_begin(t)
  \/ \E t \in Threads : manage_patient_queue_iterate(t)
  \/ \E t \in Threads : manage_patient_queue_finish(t)
  \/ \E t \in Threads : get_next_patient_filter(t)
  \/ \E t \in Threads : get_next_patient_store(t)
  \/ \E t \in Threads : clear_queue_len(t)
  \/ \E t \in Threads : clear_queue_rebind(t)
  \/ \E t \in Threads : respond(t)
  \/ Tick

SpecConc == Init /\ [][NextConc]_vars

\* No request is being handled.
Quiescent == \A t \in Threads : threads[t].pc = "idle"

\* ------------------------------------------------- two entries, one instant

\* The classifier's outputs and vital signs two entries are drawn from:
\* confidences 0.4, 0.8 and 1.0, the youngest and the oldest age factor,
\* none or all of the critical indicators.
PairProfiles ==
  [risk_level : RiskLevels,
   confidence_score : {4, DefaultConfidence, 10},
   vital_signs : {NormalVitals(0), NormalVitals(120), CriticalVitals(0),
                  CriticalVitals(120)}]

\* The service with two entries admitted at the same clock reading, in
\* either order.
InitPair ==
  /\ \E first \in PairProfiles, second \in PairProfiles :
       patient_assessments =
         << create_risk_assessment_with_priority(first, 1, 0),
            create_risk_assessment_with_priority(second, 2, 0) >>
  /\ now = 0
  /\ nextUid = 3
  /\ resp = NoResponse
  /\ served = {}
  /\ threads = [t \in Threads |-> IdleThread]
  /\ admitted = {1, 2}
  /\ removed = {}
  /\ twice = {}
  /\ InitFeedback
  /\ InitRL

NextPair ==
  \/ get_patient_queue
  \/ Return
  \/ Tick

SpecPair == InitPair /\ [][NextPair]_vars

\* Rank of a risk class by its weight: High over Medium over Low.
ClassRank(level) ==
  CASE Lower(level) = "high" -> 3
    [] Lower(level) = "medium" -> 2
    [] OTHER -> 1

\* -------------------------------------------- one entry waits, one arrives

\* The entry that waits: Medium or Low, any confidence, age and vital signs
\* of PairProfiles.
InitAging ==
  /\ \E first \in {p \in PairProfiles : Lower(p.risk_level) # "high"} :
       patient_assessments = << create_risk_assessment_with_priority(first, 1, 0) >>
  /\ now = 0
  /\ nextUid = 2
  /\ resp = NoResponse
  /\ served = {}
  /\ threads = [t \in Threads |-> IdleThread]
  /\ admitted = {1}
  /\ removed = {}
  /\ twice = {}
  /\ InitFeedback
  /\ InitRL

\* Time passes while the entry waits alone.
Wait ==
  /\ resp = NoResponse
  /\ Len(patient_assessments) = 1
  /\ now < MaxWait
  /\ now' = now + 1
  /\ UNCHANGED << patient_assessments, nextUid, resp, served >>
  /\ UNCHANGED concVars
  /\ UNCHANGED fbVars
  /\ UNCHANGED received
  /\ UNCHANGED rlVars

\* The requests of a higher risk class with the confidence, age and vital
\* signs of the waiting entry.
HigherTwins ==
  {p \in PairProfiles :
     \E i \in 1..Len(patient_assessments) :
       /\ ClassRank(p.risk_level) > ClassRank(patient_assessments[i].risk_level)
       /\ p.confidence_score = patient_assessments[i].confidence_score
       /\ p.vital_signs = patient_assessments[i].vital_signs}

NextAging ==
  \/ Wait
  \/ Admit(HigherTwins)
  \/ get_patient_queue
  \/ Return

SpecAging == InitAging /\ [][NextAging]_vars

\* ------------------------------------------ three entries, one instant

\* The requests of the end-to-end scenario: High with confidence 0.9, age 65
\* and no critical sign; Medium with confidence 0.8 and age 75; Low with
\* confidence 0.7 and age 25.
ScenarioHigh ==
  {[risk_level |-> "High", confidence_score |-> 9, vital_signs |-> NormalVitals(65)]}
ScenarioMedium ==
  [risk_level : {"Medium"}, confidence_score : {DefaultConfidence},
   vital_signs : {NormalVitals(75), CriticalVitals(75)}]
ScenarioLow ==
  [risk_level : {"Low"}, confidence_score : {7},
   vital_signs : {NormalVitals(25), CriticalVitals(25)}]

\* The service after the three admissions, made at one clock reading in any
\* order.
InitScenario ==
  /\ \E h \in ScenarioHigh, m \in ScenarioMedium, l \in ScenarioLow :
       \E order \in {f \in [1..3 -> {h, m, l}] : {f[i] : i \in 1..3} = {h, m, l}} :
         patient_assessments =
           List([i \in 1..3 |-> create_risk_assessment_with_priority(order[i], i, 0)])
  /\ now = 0
  /\ nextUid = 4
  /\ resp = NoResponse
  /\ served = {}
  /\ threads = [t \in Threads |-> IdleThread]
  /\ admitted = {1, 2, 3}
  /\ removed = {}
  /\ twice = {}
  /\ InitFeedback
  /\ InitRL

NextScenario ==
  \/ get_patient_queue
  \/ Return
  \/ Tick

SpecScenario == InitScenario /\ [][NextScenario]_vars

\* ------------------------------------------------- reads one after another

\* The response is sent and the client keeps it.
Deliver ==
  /\ resp # NoResponse
  /\ resp' = NoResponse
  /\ received' = resp
  /\ patient_history' = << >>
  /\ UNCHANGED << patient_assessments, now, nextUid, served >>
  /\ UNCHANGED concVars
  /\ UNCHANGED << q_table_json, feedback_count, save_count >>
  /\ UNCHANGED rlVars

\* Reads of a queue of two entries, with no other request and no time
\* passing between them.
NextReread ==
  \/ get_patient_queue
  \/ Deliver

SpecReread == InitPair /\ [][NextReread]_vars

\* ------------------------------------------------- calls on the scheduler

\* What the calls on the scheduler object leave alone.
appVars == << patient_assessments, now, nextUid, resp, served, received >>

\* self.choose_action(state)
rl_choose_action ==
  /\ saving.pc = "idle"
  /\ \E state \in LearnStateSet, explore \in BOOLEAN, random_action \in ActionNames :
       LET chosen == choose_action(rl_scheduler, state, explore, random_action)
       IN /\ rl_scheduler' = chosen.scheduler
          /\ rl_call' = RLCall("choose_action", state, chosen.action, 0, state,
                               EmptyTable, rl_call.updates)
  /\ UNCHANGED << q_table_file, saving >>
  /\ UNCHANGED appVars
  /\ UNCHANGED concVars
  /\ UNCHANGED fbVars

\* self.update_q_value(state, action, reward, next_state) with the reward
\* get_reward gives a Low entry for one of outcomes.
Learn(states, actions, outcomes, limit) ==
  /\ saving.pc = "idle"
  /\ rl_call.updates < limit
  /\ \E state \in states, action \in actions, outcome \in outcomes,
        next_state \in states :
       LET reward == get_reward(action, "Low", outcome)
       IN /\ rl_scheduler' = PatientSchedulerRL_update_q_value(
                               rl_scheduler, state, action, reward, next_state)
          /\ rl_call' = RLCall("update_q_value", state, action, reward, next_state,
                               EmptyTable, rl_call.updates + 1)
  /\ UNCHANGED << q_table_file, saving >>
  /\ UNCHANGED appVars
  /\ UNCHANGED concVars
  /\ UNCHANGED fbVars

\* The actions and the outcome the updates of the learning runs are made with.
LearnActions == {"immediate", "delay_30", "delay_120"}
ShortWait ==
  [actual_wait_time : {30}, satisfaction_score : {8}, resource_utilization : {7}]

rl_update_q_value == Learn(LearnStateSet, LearnActions, ShortWait, MaxUpdates)

NextLearn ==
  \/ rl_choose_action
  \/ rl_update_q_value

SpecLearn == Init /\ [][NextLearn]_vars

\* A long run of updates of one pair, until epsilon has reached min_epsilon.
rl_update_q_value_again ==
  Learn({LearnStates[1]}, {"delay_30"}, ShortWait, MaxDecays)

NextDecay ==
  \/ rl_choose_action
  \/ rl_update_q_value_again

SpecDecay == Init /\ [][NextDecay]_vars

\* ------------------------------------------------------ start with a file

\* A table a run has learned and saved: one update of delay_30 from 0.0.
SavedTable ==
  LearnStates[1] :>
    [ZeroRow EXCEPT !["delay_30"] =
       get_reward("delay_30", "Low", CHOOSE o \in ShortWait : TRUE) \div 10]

\* What the scheduler can find at start: no file, a file open() cannot read,
\* an empty file, a file that breaks off after a row, a file of garbage and
\* a saved table.
StartupFiles ==
  { NoFile,
    [exists |-> TRUE, readable |-> FALSE, text |-> json_dump(SavedTable)],
    FileOf(<< >>),
    FileOf(SubSeq(json_dump(SavedTable), 1, 2)),
    FileOf(<< [kind |-> "garbage"] >>),
    FileOf(json_dump(SavedTable)) }

InitStartup ==
  /\ patient_assessments = << >>
  /\ now = 0
  /\ nextUid = 1
  /\ resp = NoResponse
  /\ served = {}
  /\ threads = [t \in Threads |-> IdleThread]
  /\ admitted = {}
  /\ removed = {}
  /\ twice = {}
  /\ InitFeedback
  /\ q_table_file \in StartupFiles
  /\ rl_scheduler = PatientSchedulerRL(q_table_file)
  /\ saving = NotSaving
  /\ rl_call = NoCall

NextStartup ==
  \/ rl_choose_action
  \/ rl_update_q_value

SpecStartup == InitStartup /\ [][NextStartup]_vars

\* ------------------------------------------------------- saving the table

\* save_q_table, `with open(filepath, 'w') as f`: the file is created or cut
\* to nothing; nothing of the new text is in it yet.
save_q_table_open ==
  /\ saving.pc = "idle"
  /\ saving.saves < MaxSaves
  /\ ~q_table_file.exists \/ q_table_file.readable
  /\ q_table_file' = FileOf(<< >>)
  /\ saving' = [pc |-> "writing", pending |-> json_dump(rl_scheduler.q_table),
                previous |-> q_table_file, saves |-> saving.saves + 1]
  /\ rl_call' = RLCall("save_q_table", << >>, NoRL, 0, << >>, EmptyTable,
                       rl_call.updates)
  /\ UNCHANGED rl_scheduler
  /\ UNCHANGED appVars
  /\ UNCHANGED concVars
  /\ UNCHANGED fbVars

\* json.dump: the next piece of the text reaches the file.
save_q_table_write ==
  /\ saving.pc = "writing"
  /\ saving.pending # << >>
  /\ q_table_file' = FileOf(Append(q_table_file.text, Head(saving.pending)))
  /\ saving' = [saving EXCEPT !.pending = Tail(@)]
  /\ UNCHANGED << rl_scheduler, rl_call >>
  /\ UNCHANGED appVars
  /\ UNCHANGED concVars
  /\ UNCHANGED fbVars

\* The with block ends: the file is closed and save_q_table returns.
save_q_table_close ==
  /\ saving.pc = "writing"
  /\ saving.pending = << >>
  /\ saving' = [NotSaving EXCEPT !.saves = saving.saves]
  /\ UNCHANGED << rl_scheduler, q_table_file, rl_call >>
  /\ UNCHANGED appVars
  /\ UNCHANGED concVars
  /\ UNCHANGED fbVars

\* The process dies in the middle of a save and is started again: the file
\* stays as it was at that moment and a new scheduler is built from it.
crash_and_restart ==
  /\ saving.pc = "writing"
  /\ saving' = [NotSaving EXCEPT !.saves = saving.saves]
  /\ rl_scheduler' = PatientSchedulerRL(q_table_file)
  /\ rl_call' = RLCall("__init__", << >>, NoRL, 0, << >>, EmptyTable,
                       rl_call.updates)
  /\ UNCHANGED q_table_file
  /\ UNCHANGED appVars
  /\ UNCHANGED concVars
  /\ UNCHANGED fbVars

\* Another request builds its PriorityManager() while the save is under way:
\* its load_q_table reads the file as it is at that moment.
load_q_table_during_save ==
  /\ saving.pc = "writing"
  /\ rl_call' = RLCall("load_q_table", << >>, NoRL, 0, << >>,
                       load_q_table_file(q_table_file), rl_call.updates)
  /\ UNCHANGED << rl_scheduler, q_table_file, saving >>
  /\ UNCHANGED appVars
  /\ UNCHANGED concVars
  /\ UNCHANGED fbVars

NextPersist ==
  \/ rl_choose_action
  \/ rl_update_q_value
  \/ save_q_table_open
  \/ save_q_table_write
  \/ save_q_table_close
  \/ crash_and_restart
  \/ load_q_table_during_save

SpecPersist == Init /\ [][NextPersist]_vars

\* ------------------------------------------------- one entry, any vitals

\* Vital signs on both sides of every threshold of
\* _calculate_critical_vitals_factor (body_temperature in tenths).
VitalsGrid ==
  [heart_rate : {49, 50, 120, 121},
   respiratory_rate : {11, 12, 25, 26},
   body_temperature : {349, 350, 390, 391},
   oxygen_saturation : {89, 90},
   systolic_blood_pressure : {89, 90, 180, 181},
   age : {25}]

\* One High or Medium entry with vital signs of the grid has been admitted.
InitVitals ==
  /\ \E profile \in [risk_level : {"High", "Medium"},
                     confidence_score : {DefaultConfidence},
                     vital_signs : VitalsGrid] :
       patient_assessments = << create_risk_assessment_with_priority(profile, 1, 0) >>
  /\ now = 0
  /\ nextUid = 2
  /\ resp = NoResponse
  /\ served = {}
  /\ threads = [t \in Threads |-> IdleThread]
  /\ admitted = {}
  /\ removed = {}
  /\ twice = {}
  /\ InitFeedback
  /\ InitRL

NextVitals ==
  \/ get_patient_queue
  \/ Return
  \/ Tick

SpecVitals == InitVitals /\ [][NextVitals]_vars

\* ------------------------------------------- the ids a client is shown

\* Admissions, reads and pops, the client keeping the response it was sent
\* last.
NextIds ==
  \/ predict_risk_with_priority
  \/ get_patient_queue
  \/ get_next_patient
  \/ Deliver
  \/ Tick

SpecIds == Init /\ [][NextIds]_vars

\* ------------------------------------------------------------------ claims

\* The list a response's queue was computed from: the handler's list, which
\* /predict/ has appended to and /queue/next/ has not yet filtered.
SnapshotSize ==
  IF resp.op = "predict" THEN Len(resp.before) + 1 ELSE Len(resp.before)

\* C1: every snapshot of a queue holding N entries numbers them 1..N: each
\* position 1..N is given to exactly one item, and each entry of the list is
\* one item of the snapshot.
C1_PositionsAreOneToN ==
  resp.op \in {"queue", "predict"} =>
    LET q == resp.queue
        N == Len(patient_assessments)
    IN /\ Len(q) = N
       /\ N = SnapshotSize
       /\ \A k \in 1..N : Cardinality({i \in 1..Len(q) : q[i].queue_position = k}) = 1
       /\ \A i \in 1..Len(q) : q[i].queue_position \in 1..N
       /\ \A u \in UidSet(patient_assessments) :
            Cardinality({i \in 1..Len(q) : q[i].risk_assessment.uid = u}) = 1

\* C1 witness: a snapshot of two entries, one of them at position 2.
C1_Witness ==
  /\ resp.op = "queue"
  /\ Len(resp.queue) >= 2
  /\ \E i \in 1..Len(resp.queue) : resp.queue[i].queue_position = 2

\* C2: what /queue/next/ returns from a non-empty queue is one entry of that
\* queue, at position 1, whose final priority is at least that of every entry
\* the queue held.
C2_NextIsHighestPriority ==
  (resp.op = "next" /\ resp.before # << >>) =>
    /\ resp.status = 200
    /\ Len(resp.patient) = 1
    /\ resp.patient[1].queue_position = 1
    /\ resp.patient[1].risk_assessment.uid \in {resp.before[i] : i \in 1..Len(resp.before)}
    /\ {resp.queue[i].risk_assessment.uid : i \in 1..Len(resp.queue)}
         = {resp.before[i] : i \in 1..Len(resp.before)}
    /\ \A i \in 1..Len(resp.queue) :
         get_final_priority(resp.patient[1], now) >= get_final_priority(resp.queue[i], now)

\* C2 witness: a pop from a queue whose entries differ in final priority.
C2_Witness ==
  /\ resp.op = "next"
  /\ resp.status = 200
  /\ \E i \in 1..Len(resp.queue) :
       get_final_priority(resp.patient[1], now) > get_final_priority(resp.queue[i], now)

\* C3: /queue/next/ on a non-empty queue removes exactly the entry it returns:
\* the list afterwards is the list before without that one entry, and an
\* entry once served is in no later list.
C3_NextRemovesExactlyTheReturned ==
  /\ (resp.op = "next" /\ resp.status = 200) =>
       Uids(patient_assessments)
         = SelectSeq(resp.before, LAMBDA u : u # resp.patient[1].risk_assessment.uid)
  /\ served \cap UidSet(patient_assessments) = {}

\* C4: /queue/next/ on an empty queue answers 404 "No patients in queue",
\* returns no entry and leaves the list empty; a non-empty queue never gets
\* that answer.
C4_NextOnEmptyIs404 ==
  resp.op = "next" =>
    /\ resp.before = << >> =>
         /\ resp.status = 404
         /\ resp.detail = "No patients in queue"
         /\ resp.patient = << >>
         /\ patient_assessments = << >>
    /\ resp.status = 404 => resp.before = << >>
    /\ resp.status \in {200, 404}

\* C4 witness: a pop on a queue emptied by an earlier pop.
C4_Witness ==
  /\ resp.op = "next"
  /\ resp.status = 404
  /\ served # {}

\* C5: clear returns the number of entries the list held and empties it; a
\* snapshot of the emptied list is empty; the entry admitted to the emptied
\* list is alone in the snapshot, at position 1.
C5_ClearReturnsCountAndEmpties ==
  /\ resp.op = "clear" =>
       /\ resp.count = Len(resp.before)
       /\ patient_assessments = << >>
  /\ (resp.op = "queue" /\ patient_assessments = << >>) => resp.queue = << >>
  /\ (resp.op = "predict" /\ resp.before = << >>) =>
       /\ Len(resp.queue) = 1
       /\ resp.queue[1].queue_position = 1
       /\ resp.queue[1].risk_assessment.uid = nextUid - 1
       /\ Uids(patient_assessments) = << nextUid - 1 >>

\* C5 witness: an admission after a clear that removed an entry (nothing was
\* served, so only a clear can have emptied the list).
C5_Witness ==
  /\ resp.op = "predict"
  /\ resp.before = << >>
  /\ nextUid > 2
  /\ served = {}

\* C6: no entry is returned by two different /queue/next/ calls, however the
\* concurrent calls interleave.
C6_NoDoublePop ==
  twice = {}

\* C7: when every concurrent admit, pop and clear has completed, the queue
\* holds exactly the admitted entries that no pop and no clear took out, each
\* once: no completed admission is lost, no removed entry is back.
C7_SerialOutcome ==
  Quiescent =>
    /\ admitted \ removed \subseteq UidSet(patient_assessments)
    /\ removed \cap UidSet(patient_assessments) = {}
    /\ Cardinality(UidSet(patient_assessments)) = Len(patient_assessments)

\* C8: the entries of a snapshot computed while other requests run are the
\* entries the queue held at one instant between the snapshot's start and
\* its end, each listed once.
C8_SnapshotIsOneView ==
  \A t \in Threads :
    (threads[t].op = "queue" /\ threads[t].pc = "done") =>
      /\ {threads[t].queue[i] : i \in 1..Len(threads[t].queue)} \in threads[t].seen
      /\ \A i, j \in 1..Len(threads[t].queue) :
           threads[t].queue[i] = threads[t].queue[j] => i = j

\* C9: a High and a Low entry admitted at the same instant, both with the
\* default confidence: every snapshot ranks the High entry before the Low
\* one, whatever action the RL scheduler selects for the Low entry.
C9_HighBeforeLowAtDefaultConfidence ==
  resp.op = "queue" =>
    \A i, j \in 1..Len(resp.queue) :
      LET h == resp.queue[i]
          l == resp.queue[j]
      IN (/\ Lower(h.risk_assessment.risk_level) = "high"
          /\ Lower(l.risk_assessment.risk_level) = "low"
          /\ h.risk_assessment.timestamp = l.risk_assessment.timestamp
          /\ h.risk_assessment.confidence_score = DefaultConfidence
          /\ l.risk_assessment.confidence_score = DefaultConfidence)
         => h.queue_position < l.queue_position

\* C9 witness: a snapshot, taken after time has passed, of a young High entry
\* with no critical sign and an old Low entry with every critical sign, the
\* Low one admitted first and given the largest boost.
C9_Witness ==
  /\ resp.op = "queue"
  /\ now > 0
  /\ Len(resp.queue) = 2
  /\ resp.queue[1].risk_assessment.risk_level = "High"
  /\ resp.queue[1].risk_assessment.confidence_score = DefaultConfidence
  /\ resp.queue[1].risk_assessment.vital_signs = NormalVitals(0)
  /\ resp.queue[1].risk_assessment.uid = 2
  /\ resp.queue[2].risk_assessment.risk_level = "Low"
  /\ resp.queue[2].risk_assessment.confidence_score = DefaultConfidence
  /\ resp.queue[2].risk_assessment.vital_signs = CriticalVitals(120)
  /\ resp.queue[2].rl_action = "immediate"

\* C10: of two entries with equal elapsed time, every snapshot ranks the one
\* of the higher-weighted risk class first, whatever their confidences, ages
\* and critical signs.
C10_HigherClassRanksFirst ==
  resp.op = "queue" =>
    \A i, j \in 1..Len(resp.queue) :
      LET a == resp.queue[i]
          b == resp.queue[j]
      IN (/\ a.risk_assessment.timestamp = b.risk_assessment.timestamp
          /\ ClassRank(a.risk_assessment.risk_level)
               > ClassRank(b.risk_assessment.risk_level))
         => a.queue_position < b.queue_position

\* Ticks a waiting entry of class lower needs to rank ahead of an entry of
\* class higher admitted at that moment: more than 30 minutes for Medium
\* against High, 720 for Low against Medium, 1320 for Low against High.
SurpassTicks(lower, higher) ==
  CASE ClassRank(lower) = 2 -> 4
    [] ClassRank(higher) = 2 -> 73
    [] OTHER -> 133

\* C11: in every snapshot, an entry of a lower class that has waited
\* SurpassTicks ranks ahead of an entry of a higher class with the same
\* confidence, age and vital signs admitted at the moment of the snapshot,
\* whatever RL action a Low entry was given.
C11_WaitingLowerClassSurpasses ==
  resp.op \in {"queue", "predict"} =>
    \A i, j \in 1..Len(resp.queue) :
      LET lo == resp.queue[i]
          hi == resp.queue[j]
      IN (/\ ClassRank(lo.risk_assessment.risk_level)
               < ClassRank(hi.risk_assessment.risk_level)
          /\ lo.risk_assessment.confidence_score = hi.risk_assessment.confidence_score
          /\ lo.risk_assessment.vital_signs = hi.risk_assessment.vital_signs
          /\ hi.risk_assessment.timestamp = now
          /\ now - lo.risk_assessment.timestamp
               >= SurpassTicks(lo.risk_assessment.risk_level,
                               hi.risk_assessment.risk_level))
         => lo.queue_position < hi.queue_position

\* C11 witness: a Low entry of confidence 0.4, age 0 and no critical sign,
\* given the largest penalty, ahead of a High entry admitted 1330 minutes
\* after it.
C11_Witness ==
  /\ resp.op = "queue"
  /\ Len(resp.queue) = 2
  /\ resp.queue[1].risk_assessment.risk_level = "Low"
  /\ resp.queue[1].risk_assessment.confidence_score = 4
  /\ resp.queue[1].risk_assessment.vital_signs = NormalVitals(0)
  /\ resp.queue[1].rl_action = "delay_120"
  /\ resp.queue[2].risk_assessment.risk_level = "High"
  /\ resp.queue[2].risk_assessment.timestamp = now
  /\ now = 133

\* C12: the priority_score of every entry of every queue read, which is the
\* entry's final priority at the time of the read, is not negative.
C12_PriorityScoreNonNegative ==
  resp.op = "queue" =>
    \A i \in 1..Len(resp.queue) : get_final_priority(resp.queue[i], now) >= 0

\* C13: the priority score of an entry never goes down as time passes: its
\* score at a later clock reading is at least its score at the earlier one.
C13_ScoreNonDecreasingInTime ==
  [][\A i \in 1..Len(patient_assessments) :
       now' >= now =>
         calculate_priority_score(patient_assessments[i], now')
           >= calculate_priority_score(patient_assessments[i], now)]_vars

\* C13 witness: a read of an entry after time has passed, its score above
\* the score it had on admission.
C13_Witness ==
  /\ resp.op = "queue"
  /\ \E i \in 1..Len(resp.queue) :
       LET a == resp.queue[i].risk_assessment
       IN /\ now > a.timestamp
          /\ calculate_priority_score(a, now) > calculate_priority_score(a, a.timestamp)

\* C14: every snapshot lists its entries by final priority, highest first,
\* positions in listing order, and of two entries of equal final priority the
\* one admitted earlier first.
C14_SortedDescendingFifoTies ==
  resp.op \in {"queue", "predict"} =>
    \A i, j \in 1..Len(resp.queue) :
      i < j =>
        /\ resp.queue[i].queue_position < resp.queue[j].queue_position
        /\ get_final_priority(resp.queue[i], now) >= get_final_priority(resp.queue[j], now)
        /\ get_final_priority(resp.queue[i], now) = get_final_priority(resp.queue[j], now)
             => resp.queue[i].risk_assessment.timestamp
                  <= resp.queue[j].risk_assessment.timestamp

\* C14 witness: a snapshot of two entries of equal final priority admitted at
\* different times.
C14_Witness ==
  /\ resp.op = "queue"
  /\ Len(resp.queue) = 2
  /\ get_final_priority(resp.queue[1], now) = get_final_priority(resp.queue[2], now)
  /\ resp.queue[1].risk_assessment.timestamp < resp.queue[2].risk_assessment.timestamp

\* Minutes per entry of a risk class, as the wait-time estimate is specified.
per_class_minutes(level) ==
  CASE Lower(level) = "high" -> 15
    [] Lower(level) = "medium" -> 20
    [] OTHER -> 25

\* The specified estimate for an entry of a class with n entries counted:
\* n times the per-class minutes, 10 less for High, floored at 0.
SpecifiedWait(level, n) ==
  IF Lower(level) = "high"
  THEN Max(0, n * per_class_minutes(level) - 10)
  ELSE n * per_class_minutes(level)

\* C15 as stated: the estimated wait of every entry of a snapshot is the
\* specified estimate for its 1-based queue_position, and is not negative.
C15_WaitFromQueuePosition ==
  resp.op \in {"queue", "predict"} =>
    \A i \in 1..Len(resp.queue) :
      /\ resp.queue[i].estimated_wait_time
           = SpecifiedWait(resp.queue[i].risk_assessment.risk_level,
                           resp.queue[i].queue_position)
      /\ resp.queue[i].estimated_wait_time >= 0

\* C15 amended: the estimated wait of every entry of a snapshot is the
\* specified estimate for the number of entries ahead of it, which is its
\* queue_position less one, and is not negative.
C15_WaitFromEntriesAhead ==
  resp.op \in {"queue", "predict"} =>
    \A i \in 1..Len(resp.queue) :
      /\ resp.queue[i].estimated_wait_time
           = SpecifiedWait(resp.queue[i].risk_assessment.risk_level,
                           resp.queue[i].queue_position - 1)
      /\ resp.queue[i].estimated_wait_time >= 0

\* C15 witness: a snapshot with a High entry at position 2, whose wait is
\* 15 - 10 minutes, behind a High entry whose wait is 0.
C15_Witness ==
  /\ resp.op = "queue"
  /\ Len(resp.queue) = 2
  /\ resp.queue[1].risk_assessment.risk_level = "High"
  /\ resp.queue[1].estimated_wait_time = 0
  /\ resp.queue[2].risk_assessment.risk_level = "High"
  /\ resp.queue[2].estimated_wait_time = 5

\* C16: every snapshot of the scenario's three entries lists High, Medium,
\* Low in that order, for every RL action of the Low entry, and the entry at
\* position 1 has an estimated wait of 0.
C16_ScenarioOrderAndHeadWait ==
  resp.op = "queue" =>
    /\ Len(resp.queue) = 3
    /\ resp.queue[1].risk_assessment.risk_level = "High"
    /\ resp.queue[2].risk_assessment.risk_level = "Medium"
    /\ resp.queue[3].risk_assessment.risk_level = "Low"
    /\ resp.queue[1].queue_position = 1
    /\ resp.queue[1].estimated_wait_time = 0

\* C16 witness: a snapshot of the scenario in which the Low entry, admitted
\* first and with every critical sign, was given the largest boost.
C16_Witness ==
  /\ resp.op = "queue"
  /\ Len(resp.queue) = 3
  /\ resp.queue[3].risk_assessment.uid = 1
  /\ resp.queue[3].risk_assessment.vital_signs = CriticalVitals(25)
  /\ resp.queue[3].rl_action = "immediate"
  /\ resp.queue[1].risk_assessment.uid = 3

\* The indices of the Low entries of the queue that carry patient_id: the
\* entries whose (state, action) of the last scheduling is pending under it.
BoundEntries(patient_id) ==
  {i \in LowIndices(NewPatientQueue(patient_assessments)) :
     PatientQueueItem(i, patient_assessments[i]).patient_id = patient_id}

\* The state keys an entry can have been scheduled under.
StateKeys(assessment) ==
  {<< Lower(assessment.risk_level), assessment.confidence_score, n, h, b >> :
     n \in 0..10, h \in 0..5, b \in {"morning", "afternoon", "evening"}}

\* The state of an entry under the queue conditions of this moment.
CurrentState(i) ==
  get_state(PatientQueueItem(i, patient_assessments[i]),
            [total_patients |-> Len(patient_assessments),
             high_risk_count |-> Cardinality({j \in 1..Len(patient_assessments) :
                  Lower(patient_assessments[j].risk_level) = "high"})],
            now)

\* C17: feedback for the patient_id of a Low entry in the queue issues the
\* Q-learning update on the (state, action) selected for that entry: the
\* table the feedback request leaves is the one update_q_value gives for
\* some state the entry was scheduled under and some action, with the reward
\* of the outcome and the state of this moment as next_state.
C17_FeedbackUpdatesBoundPair ==
  resp.op = "feedback" =>
    \A i \in BoundEntries(resp.patient_id[1]) :
      \E state \in StateKeys(patient_assessments[i]), action \in ActionNames :
        resp.q_table =
          update_q_value(load_q_table(q_table_json), state, action,
                         get_reward(action, patient_assessments[i].risk_level,
                                    patient_history[1].outcome),
                         CurrentState(i))

\* No entry of the queue carries patient_id: an unknown patient, or one
\* already served.
Unmatched(patient_id) ==
  \A i \in 1..Len(patient_assessments) :
    PatientQueueItem(i, patient_assessments[i]).patient_id # patient_id

\* C18: feedback for a patient_id no entry carries is acknowledged, leaves
\* the Q-table, epsilon and the queue as they were, and its record is still
\* held once the request is answered.
C18_UnmatchedFeedbackKeptNotApplied ==
  [][(resp.op = "feedback" /\ Unmatched(resp.patient_id[1])) =>
       /\ resp.status = 200
       /\ resp.q_table = load_q_table(q_table_json)
       /\ q_table_json' = q_table_json
       /\ resp.epsilon = InitialEpsilon
       /\ Uids(patient_assessments) = resp.before
       /\ patient_assessments' = patient_assessments
       /\ \E k \in 1..Len(patient_history') :
            patient_history'[k].patient_id = resp.patient_id[1]]_vars

\* C19: the Q-table has been saved once for every ten feedback requests
\* received.
C19_SavedEveryTenthFeedback ==
  save_count = feedback_count \div 10

\* C20: a queue read and the read before it, with no admit, pop, clear or
\* re-scheduling between them and at the same instant, return the same
\* items: the same rl_action and rl_adjustment for every Low entry, in the
\* same order, with the same wait times.
C20_RereadReturnsTheSame ==
  (resp.op = "queue" /\ received.op = "queue") => resp.queue = received.queue

\* C21: the estimated wait an admission returns is the estimated wait of the
\* newly admitted entry itself in the snapshot taken at that admission,
\* whatever the queue holds, also when another entry was admitted less than
\* one second earlier.
C21_AdmissionReturnsOwnWait ==
  (resp.op = "predict" /\ resp.status = 200) =>
     \A i \in 1..Len(resp.queue) :
        resp.queue[i].risk_assessment.uid = nextUid - 1 =>
           resp.estimated_wait_time = resp.queue[i].estimated_wait_time

\* C22: an admission that fails in validation or in the classifier adds no
\* entry: the list after the failed request is exactly the list before it,
\* and so is what the next snapshot is built from.
C22_FailedAdmissionAddsNothing ==
  [][(resp.op = "none" /\ resp'.op = "predict" /\ resp'.status # 200) =>
       /\ patient_assessments' = patient_assessments
       /\ Uids(patient_assessments') = resp'.before]_vars

\* A request has failed while the queue held an entry.
C22_Witness ==
  /\ resp.op = "predict"
  /\ resp.status \in {422, 500}
  /\ patient_assessments # << >>

\* C25: starting from an empty table, after any sequence of choose_action and
\* update_q_value calls every state key of the table maps each of the five
\* actions to a value, and the state a call has just asked about is in the
\* table: no read of Q(state, action) hits a missing entry.
C25_EveryStateHasEveryAction ==
  /\ \A s \in DOMAIN rl_scheduler.q_table :
        /\ DOMAIN rl_scheduler.q_table[s] = ActionNames
        /\ \A a \in ActionNames : rl_scheduler.q_table[s][a] \in Int
  /\ rl_call.op \in {"choose_action", "update_q_value"} =>
        {rl_call.state, rl_call.next_state} \subseteq DOMAIN rl_scheduler.q_table
  /\ (rl_call.op = "choose_action" /\ rl_call.updates = 0) =>
        rl_scheduler.q_table[rl_call.state] = ZeroRow

\* Both states are in the table, one with a learned value and one as
\* choose_action first made it.
C25_Witness ==
  /\ DOMAIN rl_scheduler.q_table = LearnStateSet
  /\ rl_scheduler.q_table[LearnStates[1]]["delay_30"] # 0
  /\ rl_scheduler.q_table[LearnStates[2]] = ZeroRow
  /\ rl_call.op = "choose_action"

\* C26: update_q_value(state, action, reward, next_state) writes one pair,
\* Q(state, action), with old + 0.1 * (reward + 0.95 * max Q(next_state, .)
\* - old) taken on the values before the call; every other value of the table
\* is what it was, and the only keys added are state and next_state, with
\* 0.0 for every action.
C26_UpdateWritesOnePair ==
  [][(rl_call'.op = "update_q_value" /\ rl_call'.updates = rl_call.updates + 1) =>
       LET old == rl_scheduler.q_table
           new == rl_scheduler'.q_table
           c == rl_call'
           Before(s, a) == IF s \in DOMAIN old THEN old[s][a] ELSE 0
           max_next == CHOOSE v \in {Before(c.next_state, a) : a \in ActionNames} :
                         \A a \in ActionNames : Before(c.next_state, a) <= v
       IN /\ DOMAIN new = DOMAIN old \cup {c.state, c.next_state}
          /\ \A s \in DOMAIN new, a \in ActionNames :
               << s, a >> # << c.state, c.action >> => new[s][a] = Before(s, a)
          /\ new[c.state][c.action] =
               Before(c.state, c.action)
                 + (c.reward + (95 * max_next) \div 100 - Before(c.state, c.action))
                     \div 10]_vars

\* A second update, of a pair whose row already holds another learned value
\* and whose next_state is the state itself.
C26_Witness ==
  /\ rl_call.op = "update_q_value"
  /\ rl_call.updates = 2
  /\ rl_call.state = rl_call.next_state
  /\ \E a \in ActionNames :
       /\ a # rl_call.action
       /\ rl_scheduler.q_table[rl_call.state][a] # 0
  /\ rl_scheduler.q_table[rl_call.state][rl_call.action] # 0

\* C27: epsilon changes in update_q_value only, to
\* max(min_epsilon, epsilon * epsilon_decay); choose_action leaves it as it
\* is.  Over any sequence of selections and updates it never grows and is
\* never below min_epsilon.
C27_EpsilonDecaysToFloor ==
  [][/\ rl_scheduler'.epsilon <= rl_scheduler.epsilon
     /\ rl_scheduler'.epsilon >= min_epsilon
     /\ rl_call'.op = "choose_action" => rl_scheduler'.epsilon = rl_scheduler.epsilon
     /\ (rl_call'.op = "update_q_value" /\ rl_call'.updates = rl_call.updates + 1) =>
          rl_scheduler'.epsilon
            = Max(min_epsilon, (rl_scheduler.epsilon * 995) \div 1000)]_vars

\* epsilon has come down from 0.1 to min_epsilon and another update has
\* left it there.
C27_Witness ==
  /\ rl_scheduler.epsilon = min_epsilon
  /\ rl_call.op = "update_q_value"
  /\ rl_call.updates = MaxDecays

\* A file json.load reads a table from.
Loadable(file) == file.exists /\ file.readable /\ json_valid(file.text)

C23_FileAlwaysComplete ==
  /\ q_table_file.exists => Loadable(q_table_file)
  /\ saving.pc = "writing" =>
       \/ q_table_file = saving.previous
       \/ /\ Loadable(q_table_file)
          /\ json_load(q_table_file.text) = rl_scheduler.q_table
  /\ (saving.pc = "writing" /\ rl_call.op = "load_q_table") =>
       rl_call.loaded \in {load_q_table_file(saving.previous), rl_scheduler.q_table}

\* C28: the RL layer touches Low risk entries only: in every snapshot, and
\* for the entry a pop returns, every High or Medium entry has rl_adjustment
\* 0, no rl_state and no rl_action, and its final priority is its
\* deterministic score.
C28_RLTouchesLowOnly ==
  \A item \in {resp.queue[i] : i \in 1..Len(resp.queue)}
                \cup {resp.patient[i] : i \in 1..Len(resp.patient)} :
     Lower(item.risk_assessment.risk_level) # "low" =>
        /\ item.rl_adjustment = 0
        /\ item.rl_state = << >>
        /\ item.rl_action = NoRL
        /\ get_final_priority(item, now)
             = calculate_priority_score(item.risk_assessment, now)

\* A snapshot holds a Medium entry next to a Low entry the RL layer has
\* given an adjustment.
C28_Witness ==
  \E i, j \in 1..Len(resp.queue) :
     /\ resp.queue[i].risk_assessment.risk_level = "Medium"
     /\ resp.queue[j].risk_assessment.risk_level = "Low"
     /\ resp.queue[j].rl_adjustment # 0
     /\ resp.queue[j].rl_action # NoRL

\* C29: applying an RL action to an entry adds the action's delay (0, 15, 30,
\* 60, 120) to the entry's estimated wait, sets its rl_adjustment to the
\* action's boost (+10, +2, 0, -3, -8) and records rl_state and rl_action on
\* it; no other entry and no other field of the entry is changed, and the
\* delay is part of the estimated wait the snapshot reports for the entry.
C29_DelayIsInReportedWait ==
  (resp.op \in {"queue", "predict"} /\ resp.status = 200) =>
     \A i \in 1..Len(resp.queue) :
        LET item == resp.queue[i]
            queue_info ==
              [total_patients |-> Len(resp.queue),
               high_risk_count |-> Cardinality({j \in 1..Len(resp.queue) :
                  Lower(resp.queue[j].risk_assessment.risk_level) = "high"})]
            from_position == calculate_estimated_wait_time(item, i - 1)
        IN /\ \E k \in 1..Len(patient_assessments) :
                /\ item.risk_assessment = patient_assessments[k]
                /\ item.patient_id = << k, patient_assessments[k].timestamp >>
           /\ IF Lower(item.risk_assessment.risk_level) = "low"
              THEN /\ item.rl_action \in ActionNames
                   /\ item.rl_adjustment = action_boost(item.rl_action)
                   /\ item.rl_state = get_state(item, queue_info, now)
                   /\ item.estimated_wait_time
                        = from_position + action_delay(item.rl_action)
              ELSE /\ item.rl_action = NoRL
                   /\ item.rl_adjustment = 0
                   /\ item.rl_state = << >>
                   /\ item.estimated_wait_time = from_position

\* The five indicators with their penalties in tenths: heart rate 0.3,
\* systolic pressure 0.4, oxygen saturation 0.5, temperature 0.3,
\* respiratory rate 0.2.
Penalties ==
  {<< "heart_rate", 3 >>, << "systolic_blood_pressure", 4 >>,
   << "oxygen_saturation", 5 >>, << "body_temperature", 3 >>,
   << "respiratory_rate", 2 >>}

\* Whether the vital signs trigger the indicator of that name.
IsCritical(vs, name) ==
  CASE name = "heart_rate" -> vs.heart_rate < 50 \/ vs.heart_rate > 120
    [] name = "systolic_blood_pressure" ->
         vs.systolic_blood_pressure < 90 \/ vs.systolic_blood_pressure > 180
    [] name = "oxygen_saturation" -> vs.oxygen_saturation < 90
    [] name = "body_temperature" ->
         vs.body_temperature < 350 \/ vs.body_temperature > 390
    [] name = "respiratory_rate" ->
         vs.respiratory_rate < 12 \/ vs.respiratory_rate > 25

\* The indicators an entry's vital signs trigger.
Triggered(vs) == {p \in Penalties : IsCritical(vs, p[1])}

RECURSIVE PenaltySum(_)
PenaltySum(indicators) ==
  IF indicators = {} THEN 0
  ELSE LET one == CHOOSE x \in indicators : TRUE
       IN one[2] + PenaltySum(indicators \ {one})

\* C30: critical_factor is the sum of the penalties of the triggered
\* indicators, each counted once, capped at 1.0: it is within [0, 1.0], an
\* entry triggering all five has exactly 1.0 and not 1.7, and that is the
\* factor (1 + critical_factor) of the score the snapshot ranks the entry by.
C30_CriticalFactorCapped ==
  \A k \in 1..Len(patient_assessments) :
     LET a == patient_assessments[k]
         sum == PenaltySum(Triggered(a.vital_signs))
         capped == IF sum > 10 THEN 10 ELSE sum
         critical_factor == _calculate_critical_vitals_factor(a.vital_signs)
     IN /\ critical_factor = capped
        /\ critical_factor >= 0
        /\ critical_factor <= 10
        /\ Cardinality(Triggered(a.vital_signs)) = 5 => critical_factor = 10
        /\ \A i \in 1..Len(resp.queue) :
             resp.queue[i].risk_assessment = a =>
                get_final_priority(resp.queue[i], now)
                  = risk_weights(Lower(a.risk_level)) * a.confidence_score
                      * _calculate_time_urgency(a, now)
                      * (80 + Min(a.vital_signs.age, 120)) * (10 + capped)

\* A snapshot holds an entry that triggers all five indicators, read after
\* it has waited.
C30_Witness ==
  /\ resp.op = "queue"
  /\ Len(resp.queue) = 1
  /\ Cardinality(Triggered(resp.queue[1].risk_assessment.vital_signs)) = 5
  /\ now > resp.queue[1].risk_assessment.timestamp

\* The items a response shows: its snapshot and, for a pop, the entry
\* returned.
ItemsOf(response) ==
  {response.queue[i] : i \in 1..Len(response.queue)}
    \cup {response.patient[i] : i \in 1..Len(response.patient)}

\* C31: an entry's patient id is fixed at admission: the same admitted entry
\* is shown under the same patient_id in every snapshot and pop until it is
\* removed, also after other entries were popped, and two distinct entries
\* of one snapshot never share a patient_id.
C31_PatientIdIsStable ==
  /\ \A p \in ItemsOf(resp), q \in ItemsOf(received) :
       p.risk_assessment.uid = q.risk_assessment.uid => p.patient_id = q.patient_id
  /\ \A i, j \in 1..Len(resp.queue) :
       resp.queue[i].patient_id = resp.queue[j].patient_id => i = j

=============================================================================
